---- MODULE Spec2Model ----
(***************************************************************************)
(* Model of the glue code of the repository:                               *)
(*   - LighterBaseWriter (lighter/callbacks/writer/base.py): setup() and   *)
(*     on_predict_batch_end() run by every process of a distributed run;   *)
(*   - System (lightningbringer/system.py): _step(), _log_by_type() and    *)
(*     setup().                                                            *)
(* Three groups of variables, one per component; each specification       *)
(* drives one group and leaves the others at their constructed values.    *)
(***************************************************************************)
EXTENDS Integers, Sequences, FiniteSets, TLC

\* ------------------------------------------------------------------ bounds
MaxWorld == 2
MaxBatch == 2
MaxCalls == 4
MaxDataloaders == 2
MaxSingleBatch == 4
MaxRank == 2
MaxSetups == 4

\* ----------------------------------------------------------------- writer
VARIABLES
    world_size,      \* trainer.world_size
    stage,           \* the stage the trainer passes to setup()
    base,            \* the `directory` argument of the constructor
    num_dataloaders, \* trainer.predict_loop.num_dataloaders
    batch_limit,     \* the batch size of the predict dataloader
    storageOf,       \* rank -> the storage (filesystem) the process sees
    fs0,             \* the filesystems before setup (history variable)
    fs,              \* storage -> set of existing directories
    pc,              \* rank -> position of the process
    directory,       \* rank -> self.directory
    pred_counter,    \* rank -> self._pred_counter (None or <<n>>)
    arrived,         \* ranks that have entered trainer.strategy.barrier()
    ncollective,     \* rank -> number of broadcast/barrier calls made
    warned,          \* rank -> the "already exists" warning was logged
    raised,          \* rank -> setup raised the RuntimeError
    created,         \* set of <<rank, path>>: mkdir calls made
    predictions,     \* rank -> trainer.predict_loop._predictions
    ncalls,          \* rank -> number of on_predict_batch_end calls handled
    assigned,        \* rank -> every ID the writer generated, in order
    uniform,         \* rank -> <<B>> while every call had size B and no IDs (history)
    outputs,         \* rank -> `outputs` of the last call as the handler left it
    events           \* rank -> write/clear events of the last call, in order

wvars == <<world_size, stage, base, num_dataloaders, batch_limit, storageOf, fs0, fs, pc,
           directory, pred_counter, arrived, ncollective, warned, raised,
           created, predictions, ncalls, assigned, uniform,
           outputs, events>>

\* System._step
VARIABLES
    s_log_as,        \* key -> self._log_<key>_as
    s_is_bce,        \* isinstance(self.criterion, BCEWithLogitsLoss)
    s_has_metrics,   \* whether a metric is configured for the mode
    s_mode,          \* the mode of the step: train, val or test
    s_target_shape,  \* target.shape
    s_pred_shape,    \* the shape of the model's output
    s_pc,            \* "ready", "done" (the step returned) or "exited" (sys.exit)
    s_pred_out,      \* pred.shape as given to the loss and the metrics
    s_loss,          \* whether a loss was computed
    s_sigmoid,       \* whether torch.sigmoid was applied to pred
    s_logs           \* the _log_by_type calls made, in order

svars == <<s_log_as, s_is_bce, s_has_metrics, s_mode, s_target_shape, s_pred_shape,
           s_pc, s_pred_out, s_loss, s_sigmoid, s_logs>>

\* System.setup
VARIABLES
    l_datasets,      \* name -> whether the dataset was given to the constructor
    l_methods,       \* method name -> what the attribute resolves to
    l_resetted,      \* self._lightning_module_methods_resetted
    l_deletions,     \* how many times the placeholders were deleted
    l_last_stage,    \* the stage of the last successful setup ("" if none)
    l_setups,        \* number of setup calls made
    l_exited         \* setup called sys.exit()

lvars == <<l_datasets, l_methods, l_resetted, l_deletions, l_last_stage, l_setups, l_exited>>

None == <<>>
Some(n) == <<n>>

\* The ranks of the run, and every rank a run of the largest world size has.
Ranks == 0 .. (world_size - 1)
AllRanks == 0 .. (MaxWorld - 1)
Stages == {"fit", "validate", "test", "predict"}
BasePaths == {<<"preds">>, <<"runs", "preds">>}

\* Path.mkdir(parents=True): the path and all of its ancestors.
WithParents(p) == {SubSeq(p, 1, k) : k \in 1 .. Len(p)}

\* Path.exists() as seen by the process with rank r.
Exists(r, p) == p \in fs[storageOf[r]]

ShouldSetupAlways(s) == TRUE
\* `if stage != "predict": return`
ShouldSetup(s) == s = "predict"

SeedCounterZero(W, rank) == 0
\* torch.distributed.get_rank() if trainer.world_size > 1 else 0
SeedCounter(W, rank) == IF W > 1 THEN rank ELSE 0

\* trainer.is_global_zero
IsGlobalZero(r) == r = 0

BarrierCompleteNoWait == TRUE
\* trainer.strategy.barrier() returns once every process has entered it.
BarrierComplete == arrived = Ranks

\* Python's range(start, stop, step) for step > 0, as a sequence.
Range(start, stop, step) ==
    IF stop <= start THEN <<>>
    ELSE [i \in 1 .. ((stop - start + step - 1) \div step) |-> start + (i - 1) * step]

GenerateIdsUnitStep(counter, batch_size, W) ==
    Range(counter, counter + batch_size, 1)
\* list(range(self._pred_counter, self._pred_counter + batch_size * world_size, world_size))
GenerateIds(counter, batch_size, W) ==
    Range(counter, counter + batch_size * W, W)

NextCounterNoBatch(counter, batch_size, W) == counter + W
\* self._pred_counter += batch_size * world_size
NextCounter(counter, batch_size, W) == counter + batch_size * W

Min(a, b) == IF a <= b THEN a ELSE b

\* for id, pred in zip(outputs["id"], outputs["pred"]): self.write(tensor=pred, id=id)
WriteEvents(ids, preds) ==
    [i \in 1 .. Min(Len(ids), Len(preds)) |-> <<"write", preds[i], ids[i]>>]

\* [[] for _ in range(trainer.predict_loop.num_dataloaders)]
ClearedPredictions(n) == [i \in 1 .. n |-> <<>>]

HandlerEventsClearFirst(ids, preds, n) ==
    <<(<<"clear", ClearedPredictions(n)>>)>> \o WriteEvents(ids, preds)
\* Lines 116-120 in order: the writes, then the reset of the buffer.
HandlerEvents(ids, preds, n) ==
    Append(WriteEvents(ids, preds), <<"clear", ClearedPredictions(n)>>)

\* The state after construction of the writer on every process.
WriterConstructed ==
    /\ fs = fs0
    /\ pc = [r \in Ranks |-> "init"]
    /\ directory = [r \in Ranks |-> base]
    /\ pred_counter = [r \in Ranks |-> None]
    /\ arrived = {}
    /\ ncollective = [r \in Ranks |-> 0]
    /\ warned = [r \in Ranks |-> FALSE]
    /\ raised = [r \in Ranks |-> FALSE]
    /\ created = {}
    /\ predictions = [r \in Ranks |-> ClearedPredictions(num_dataloaders)]
    /\ ncalls = [r \in Ranks |-> 0]
    /\ assigned = [r \in Ranks |-> <<>>]
    /\ uniform = [r \in Ranks |-> <<>>]
    /\ outputs = [r \in Ranks |-> <<>>]
    /\ events = [r \in Ranks |-> <<>>]

\* Any stage, any mix of shared and private storage, the directory possibly
\* already present on a storage.
InitWriterSetup ==
    /\ world_size \in 1 .. MaxWorld
    /\ stage \in Stages
    /\ base \in BasePaths
    /\ num_dataloaders = 1
    /\ batch_limit = 1
    /\ storageOf \in [Ranks -> Ranks]
    /\ \A r \in Ranks : storageOf[r] \in {0, r}
    /\ fs0 \in [Ranks -> {{}, WithParents(base)}]
    /\ \A s \in Ranks : (\A r \in Ranks : storageOf[r] # s) => fs0[s] = {}
    /\ WriterConstructed

\* A predict run on shared storage.
InitWriterPredict ==
    /\ world_size \in 1 .. MaxWorld
    /\ stage = "predict"
    /\ base = <<"runs", "preds">>
    /\ num_dataloaders \in 1 .. MaxDataloaders
    /\ batch_limit = MaxBatch
    /\ storageOf = [r \in Ranks |-> 0]
    /\ fs0 = [r \in Ranks |-> {}]
    /\ WriterConstructed

\* A single-process predict run with a larger batch size.
InitWriterSingle ==
    /\ world_size = 1
    /\ stage = "predict"
    /\ base = <<"runs", "preds">>
    /\ num_dataloaders = 1
    /\ batch_limit = MaxSingleBatch
    /\ storageOf = [r \in Ranks |-> 0]
    /\ fs0 = [r \in Ranks |-> {}]
    /\ WriterConstructed

\* setup(), lines 79-83: the stage check and the seeding of the counter.
SetupEnter(r) ==
    /\ r \in Ranks
    /\ pc[r] = "init"
    /\ IF ShouldSetup(stage)
       THEN /\ pred_counter' = [pred_counter EXCEPT ![r] = Some(SeedCounter(world_size, r))]
            /\ pc' = [pc EXCEPT ![r] = "broadcast"]
       ELSE /\ pc' = [pc EXCEPT ![r] = "returned"]
            /\ UNCHANGED pred_counter
    /\ UNCHANGED <<world_size, stage, base, num_dataloaders, batch_limit, storageOf, fs0, fs,
                   directory, arrived, ncollective, warned, raised, created,
                   predictions, ncalls, assigned, uniform, outputs, events,
                   svars, lvars>>

\* setup(), line 86: every process takes the directory of rank 0; a receiver
\* blocks until the source has entered the broadcast.
Broadcast(r) ==
    /\ r \in Ranks
    /\ pc[r] = "broadcast"
    /\ pc[0] # "init"
    /\ directory' = [directory EXCEPT ![r] = directory[0]]
    /\ ncollective' = [ncollective EXCEPT ![r] = @ + 1]
    /\ pc' = [pc EXCEPT ![r] = "warn"]
    /\ UNCHANGED <<world_size, stage, base, num_dataloaders, batch_limit, storageOf, fs0, fs,
                   pred_counter, arrived, warned, raised, created,
                   predictions, ncalls, assigned, uniform, outputs, events,
                   svars, lvars>>

\* setup(), lines 88-89: warn if the directory already exists.
WarnIfExists(r) ==
    /\ r \in Ranks
    /\ pc[r] = "warn"
    /\ warned' = [warned EXCEPT ![r] = Exists(r, directory[r])]
    /\ pc' = [pc EXCEPT ![r] = "mkdir"]
    /\ UNCHANGED <<world_size, stage, base, num_dataloaders, batch_limit, storageOf, fs0, fs,
                   directory, pred_counter, arrived, ncollective, raised, created,
                   predictions, ncalls, assigned, uniform, outputs, events,
                   svars, lvars>>

\* setup(), lines 90-91: only the global-zero process creates the directory.
Mkdir(r) ==
    /\ r \in Ranks
    /\ pc[r] = "mkdir"
    /\ IF IsGlobalZero(r)
       THEN /\ fs' = [fs EXCEPT ![storageOf[r]] = @ \cup WithParents(directory[r])]
            /\ created' = created \cup {<<r, directory[r]>>}
       ELSE UNCHANGED <<fs, created>>
    /\ pc' = [pc EXCEPT ![r] = "barrier"]
    /\ UNCHANGED <<world_size, stage, base, num_dataloaders, batch_limit, storageOf, fs0,
                   directory, pred_counter, arrived, ncollective, warned, raised,
                   predictions, ncalls, assigned, uniform, outputs, events,
                   svars, lvars>>

\* setup(), line 93: the process enters the barrier.
BarrierEnter(r) ==
    /\ r \in Ranks
    /\ pc[r] = "barrier"
    /\ arrived' = arrived \cup {r}
    /\ ncollective' = [ncollective EXCEPT ![r] = @ + 1]
    /\ pc' = [pc EXCEPT ![r] = "in_barrier"]
    /\ UNCHANGED <<world_size, stage, base, num_dataloaders, batch_limit, storageOf, fs0, fs,
                   directory, pred_counter, warned, raised, created,
                   predictions, ncalls, assigned, uniform, outputs, events,
                   svars, lvars>>

\* setup(), lines 93-99: the process leaves the barrier and checks that the
\* directory exists; it raises RuntimeError if it does not.
ExistsCheck(r) ==
    /\ r \in Ranks
    /\ pc[r] = "in_barrier"
    /\ BarrierComplete
    /\ IF ~Exists(r, directory[r])
       THEN /\ raised' = [raised EXCEPT ![r] = TRUE]
            /\ pc' = [pc EXCEPT ![r] = "raised"]
       ELSE /\ pc' = [pc EXCEPT ![r] = "done"]
            /\ UNCHANGED raised
    /\ UNCHANGED <<world_size, stage, base, num_dataloaders, batch_limit, storageOf, fs0, fs,
                   directory, pred_counter, arrived, ncollective, warned, created,
                   predictions, ncalls, assigned, uniform, outputs, events,
                   svars, lvars>>

\* The number of calls handled so far by the processes of S.
RECURSIVE CallsOf(_)
CallsOf(S) == IF S = {} THEN 0
              ELSE LET r == CHOOSE x \in S : TRUE IN ncalls[r] + CallsOf(S \ {r})

\* outputs["pred"] of the k-th batch of a process: batch_size distinct tensors.
Preds(k, batch_size) == [i \in 1 .. batch_size |-> <<k, i>>]

\* outputs["id"] when the system provides the IDs: one per example.
ProvidedIds(batch_size) == [i \in 1 .. batch_size |-> 100 + batch_size - i]

\* on_predict_batch_end(), lines 109-121, the whole handler. The trainer has
\* stored the outputs of the batch in _predictions[dataloader_idx] before it
\* calls the handler.
OnPredictBatchEnd(r) ==
    /\ r \in Ranks
    /\ pc[r] = "done"
    /\ CallsOf(Ranks) < MaxCalls
    /\ \E batch_size \in 1 .. batch_limit, provided \in BOOLEAN :
         LET pred == Preds(ncalls[r] + 1, batch_size)
             counter == pred_counter[r][1]
             ids == IF provided THEN ProvidedIds(batch_size)
                    ELSE GenerateIds(counter, batch_size, world_size)
         IN /\ pred_counter' = [pred_counter EXCEPT ![r] =
                   IF provided THEN @
                   ELSE Some(NextCounter(counter, batch_size, world_size))]
            /\ assigned' = [assigned EXCEPT ![r] = IF provided THEN @ ELSE @ \o ids]
            /\ uniform' = [uniform EXCEPT ![r] =
                   IF ~provided /\ @ \in {<<>>, <<batch_size>>}
                   THEN <<batch_size>> ELSE <<0>>]
            /\ outputs' = [outputs EXCEPT ![r] =
                   <<[id |-> ids, pred |-> pred, generated |-> ~provided]>>]
            /\ events' = [events EXCEPT ![r] = HandlerEvents(ids, pred, num_dataloaders)]
    /\ predictions' = [predictions EXCEPT ![r] = ClearedPredictions(num_dataloaders)]
    /\ ncalls' = [ncalls EXCEPT ![r] = @ + 1]
    /\ UNCHANGED <<world_size, stage, base, num_dataloaders, batch_limit, storageOf, fs0, fs, pc,
                   directory, arrived, ncollective, warned, raised, created, svars, lvars>>

\* ----------------------------------------------------------- System._step

\* Python values, tagged with their type: True == "scalar" is False in Python.
PyNone == [type |-> "NoneType", val |-> "None"]
PyStr(s) == [type |-> "str", val |-> s]
PyBool(b) == [type |-> "bool", val |-> IF b THEN "True" ELSE "False"]
Truthy(v) == v \notin {PyNone, PyBool(FALSE), PyStr("")}

Modes == {"train", "val", "test"}
LogKeys == <<"input", "target", "pred">>
SupportedTypes == {"scalar", "image_single", "image_batch"}
LogAsValues == {PyNone} \cup {PyStr(t) : t \in SupportedTypes \cup {"video"}}

\* A unit dimension and a non-unit one.
Dims == {1, 2}
Shapes == UNION {[1 .. n -> Dims] : n \in 0 .. MaxRank}

RECURSIVE Product(_)
Product(shape) == IF shape = <<>> THEN 1 ELSE Head(shape) * Product(Tail(shape))

\* Tensor.flatten(): one dimension holding every element.
Flatten(shape) == <<Product(shape)>>

ShouldFlattenAnyTarget(target, pred) == Len(pred) = 2 /\ pred[2] = 1
\* len(target.shape) == 1 and len(pred.shape) == 2 and pred.shape[1] == 1
ShouldFlatten(target, pred) == Len(target) = 1 /\ Len(pred) = 2 /\ pred[2] = 1

\* _log_by_type(): what the call does for a data type.
LogByType(data_type) ==
    IF data_type = PyStr("scalar") THEN "scalar"
    ELSE IF data_type \in {PyStr("image_single"), PyStr("image_batch")} THEN "image"
    ELSE "exit"

\* `data_type := getattr(self, f"_log_{key}_as") is not None`: the walrus binds
\* the result of the comparison.
WalrusDataType(log_as) == PyBool(log_as # PyNone)

\* Lines 149-152: the loop over input, target and pred; it ends at a sys.exit().
RECURSIVE LogKeysFrom(_, _, _)
LogKeysFrom(i, log_as, mode) ==
    IF i > Len(LogKeys) THEN <<>>
    ELSE LET key == LogKeys[i]
             data_type == WalrusDataType(log_as[key])
         IN IF Truthy(data_type)
            THEN LET call == [name |-> <<mode, key>>, data_type |-> data_type,
                              outcome |-> LogByType(data_type)]
                 IN IF call.outcome = "exit" THEN <<call>>
                    ELSE <<call>> \o LogKeysFrom(i + 1, log_as, mode)
            ELSE LogKeysFrom(i + 1, log_as, mode)

\* Lines 139-146: the metrics and the loss are logged as scalars.
ScalarLogs(mode, has_metrics, has_loss) ==
    (IF has_metrics
     THEN <<[name |-> <<mode, "metric">>, data_type |-> PyStr("scalar"),
             outcome |-> LogByType(PyStr("scalar"))]>>
     ELSE <<>>)
    \o (IF has_loss
        THEN <<[name |-> <<mode, "loss">>, data_type |-> PyStr("scalar"),
                outcome |-> LogByType(PyStr("scalar"))]>>
        ELSE <<>>)

\* No batch has been handed to the step yet.
StepUnused ==
    /\ s_mode = "train"
    /\ s_target_shape = <<>>
    /\ s_pred_shape = <<>>
    /\ s_pc = "idle"
    /\ s_pred_out = <<>>
    /\ s_loss = FALSE
    /\ s_sigmoid = FALSE
    /\ s_logs = <<>>

InitStep ==
    /\ s_log_as \in [{"input", "target", "pred"} -> LogAsValues]
    /\ s_is_bce \in BOOLEAN
    /\ s_has_metrics \in BOOLEAN
    /\ StepUnused

\* _step(), lines 101-158, the whole method.
Step ==
    /\ s_pc = "ready"
    /\ LET pred == IF ShouldFlatten(s_target_shape, s_pred_shape)
                   THEN Flatten(s_pred_shape) ELSE s_pred_shape
           has_loss == s_mode # "test"
           logs == ScalarLogs(s_mode, s_has_metrics, has_loss)
                   \o LogKeysFrom(1, s_log_as, s_mode)
       IN /\ s_pred_out' = pred
          /\ s_loss' = has_loss
          /\ s_sigmoid' = s_is_bce
          /\ s_logs' = logs
          /\ s_pc' = IF \E i \in 1 .. Len(logs) : logs[i].outcome = "exit"
                     THEN "exited" ELSE "done"
    /\ UNCHANGED <<s_log_as, s_is_bce, s_has_metrics, s_mode, s_target_shape, s_pred_shape,
                   wvars, lvars>>

\* The trainer hands the next batch to the step.
NextBatch ==
    /\ s_pc \in {"idle", "done"}
    /\ s_mode' \in Modes
    /\ s_target_shape' \in Shapes
    /\ s_pred_shape' \in Shapes
    /\ s_pc' = "ready"
    /\ s_pred_out' = <<>>
    /\ s_loss' = FALSE
    /\ s_sigmoid' = FALSE
    /\ s_logs' = <<>>
    /\ UNCHANGED <<s_log_as, s_is_bce, s_has_metrics, wvars, lvars>>

\* ----------------------------------------------------------- System.setup

MethodNames == {"train_dataloader", "training_step", "val_dataloader",
                "validation_step", "test_dataloader", "test_step"}
SystemStages == {"fit", "validate", "test"}

\* dataset_required_by_stage
DatasetRequiredByStage(st) ==
    CASE st = "fit" -> "train_dataset"
      [] st = "validate" -> "val_dataset"
      [] st = "test" -> "test_dataset"

\* Lines 236-249: the methods a setup call binds, with the mode they are bound to.
BoundBy(st, datasets) ==
    (IF st \in {"fit", "tune"}
     THEN {<<"train_dataloader", "train">>, <<"training_step", "train">>} ELSE {})
    \cup (IF st = "validate" \/ (st \in {"fit", "tune"} /\ datasets["val_dataset"])
          THEN {<<"val_dataloader", "val">>, <<"validation_step", "val">>} ELSE {})
    \cup (IF st = "test"
          THEN {<<"test_dataloader", "test">>, <<"test_step", "test">>} ELSE {})

\* __init__(), lines 56-58 and 75-83.
InitSystem ==
    /\ l_datasets \in [{"train_dataset", "val_dataset", "test_dataset"} -> BOOLEAN]
    /\ l_methods = [m \in MethodNames |-> "placeholder"]
    /\ l_resetted = FALSE
    /\ l_deletions = 0
    /\ l_last_stage = ""
    /\ l_setups = 0
    /\ l_exited = FALSE

\* setup(stage), lines 207-249, the whole method.
SystemSetup(st) ==
    /\ ~l_exited
    /\ l_setups < MaxSetups
    /\ l_setups' = l_setups + 1
    /\ UNCHANGED <<wvars, svars>>
    /\ IF ~l_datasets[DatasetRequiredByStage(st)]
       THEN /\ l_exited' = TRUE
            /\ UNCHANGED <<l_datasets, l_methods, l_resetted, l_deletions, l_last_stage>>
       ELSE LET deleted == IF ~l_resetted
                           THEN [m \in MethodNames |-> "inherited"]
                           ELSE l_methods
                bound == BoundBy(st, l_datasets)
            IN /\ l_methods' = [m \in MethodNames |->
                      IF \E b \in bound : b[1] = m
                      THEN (CHOOSE b \in bound : b[1] = m)[2]
                      ELSE deleted[m]]
               /\ l_deletions' = IF ~l_resetted THEN l_deletions + 1 ELSE l_deletions
               /\ l_resetted' = TRUE
               /\ l_last_stage' = st
               /\ UNCHANGED <<l_datasets, l_exited>>

\* ---------------------------------------------------------- specifications
vars == <<wvars, svars, lvars>>

\* A component that a specification does not drive stays as constructed.
WriterIdle ==
    /\ world_size = 1
    /\ stage = "predict"
    /\ base = <<"preds">>
    /\ num_dataloaders = 1
    /\ batch_limit = 1
    /\ storageOf = [r \in Ranks |-> 0]
    /\ fs0 = [r \in Ranks |-> {}]
    /\ WriterConstructed

StepIdle ==
    /\ s_log_as = [k \in {"input", "target", "pred"} |-> PyNone]
    /\ s_is_bce = FALSE
    /\ s_has_metrics = FALSE
    /\ StepUnused

SystemIdle ==
    /\ l_datasets = [d \in {"train_dataset", "val_dataset", "test_dataset"} |-> FALSE]
    /\ l_methods = [m \in MethodNames |-> "placeholder"]
    /\ l_resetted = FALSE
    /\ l_deletions = 0
    /\ l_last_stage = ""
    /\ l_setups = 0
    /\ l_exited = FALSE

\* The writer in a predict run on shared storage: setup, then the batches.
Init == InitWriterPredict /\ StepIdle /\ SystemIdle
Next ==
    \/ \E r \in AllRanks : SetupEnter(r)
    \/ \E r \in AllRanks : Broadcast(r)
    \/ \E r \in AllRanks : WarnIfExists(r)
    \/ \E r \in AllRanks : Mkdir(r)
    \/ \E r \in AllRanks : BarrierEnter(r)
    \/ \E r \in AllRanks : ExistsCheck(r)
    \/ \E r \in AllRanks : OnPredictBatchEnd(r)
Spec == Init /\ [][Next]_vars

\* The same writer in a single-process run with batches of up to MaxSingleBatch.
InitSingle == InitWriterSingle /\ StepIdle /\ SystemIdle
SpecSingle == InitSingle /\ [][Next]_vars

\* The writer's setup in any stage on any mix of storages.
InitSetup == InitWriterSetup /\ StepIdle /\ SystemIdle
NextSetup ==
    \/ \E r \in AllRanks : SetupEnter(r)
    \/ \E r \in AllRanks : Broadcast(r)
    \/ \E r \in AllRanks : WarnIfExists(r)
    \/ \E r \in AllRanks : Mkdir(r)
    \/ \E r \in AllRanks : BarrierEnter(r)
    \/ \E r \in AllRanks : ExistsCheck(r)
SpecSetup == InitSetup /\ [][NextSetup]_vars

\* System._step on any batch under any logging configuration.
InitStepSpec == WriterIdle /\ InitStep /\ SystemIdle
NextStep == Step \/ NextBatch
SpecStep == InitStepSpec /\ [][NextStep]_vars

\* System.setup called repeatedly.
InitSystemSpec == WriterIdle /\ StepIdle /\ InitSystem
NextSystem == \E st \in SystemStages : SystemSetup(st)
SpecSystem == InitSystemSpec /\ [][NextSystem]_vars

\* ------------------------------------------------------------------ claims

\* C1: the IDs the writers generate are pairwise distinct across all processes
\* and all batches, and the IDs generated on one process, taken in order over
\* its consecutive batches, form an arithmetic progression with common
\* difference world_size. (Holds in particular when every batch has the same
\* size B and no IDs are provided.)
C1_DistinctStridedIds ==
    /\ \A r1 \in Ranks, r2 \in Ranks :
         \A i \in DOMAIN assigned[r1], j \in DOMAIN assigned[r2] :
            (r1 # r2 \/ i # j) => assigned[r1][i] # assigned[r2][j]
    /\ \A r \in Ranks :
         \A i \in 1 .. (Len(assigned[r]) - 1) :
            assigned[r][i + 1] - assigned[r][i] = world_size

\* Two processes, each after two batches of size 2 without IDs.
C1_Witness ==
    /\ world_size = 2
    /\ \A r \in Ranks : ncalls[r] = 2 /\ uniform[r] = <<2>> /\ Len(assigned[r]) = 4

\* C2: in a single-process run, while every call had a batch of size B and no
\* IDs, the k-th call (k = 0, 1, ...) assigned exactly [k*B, ..., k*B + B - 1];
\* batch size 4 gives [0,1,2,3] and then [4,5,6,7].
C2_SingleProcessIds ==
    (world_size = 1 /\ ncalls[0] > 0 /\ uniform[0] # <<0>>) =>
        LET B == uniform[0][1]
            k == ncalls[0] - 1
        IN /\ outputs[0][1].id = [i \in 1 .. B |-> k * B + i - 1]
           /\ (B = 4 /\ k = 0) => outputs[0][1].id = <<0, 1, 2, 3>>
           /\ (B = 4 /\ k = 1) => outputs[0][1].id = <<4, 5, 6, 7>>

\* The second batch of size 4 of a single-process run has been handled.
C2_Witness ==
    /\ world_size = 1
    /\ ncalls[0] = 2
    /\ uniform[0] = <<4>>
    /\ outputs[0][1].id = <<4, 5, 6, 7>>
    /\ assigned[0] = <<0, 1, 2, 3, 4, 5, 6, 7>>

AllShared == \A r \in Ranks : storageOf[r] = storageOf[0]

\* C3: in a predict setup whose processes share storage, only the global-zero
\* process creates the directory, every existence check after the barrier comes
\* after that creation and sees the directory, and no process raises.
C3_SharedStorageNoError ==
    (stage = "predict" /\ AllShared) =>
        /\ \A c \in created : c[1] = 0
        /\ \A r \in Ranks :
             /\ ~raised[r]
             /\ pc[r] \in {"done", "raised"} =>
                  /\ <<0, directory[r]>> \in created
                  /\ Exists(r, directory[r])

\* Two processes on shared storage without the directory have both finished setup.
C3_Witness ==
    /\ stage = "predict"
    /\ world_size = 2
    /\ AllShared
    /\ fs0[0] = {}
    /\ \A r \in Ranks : pc[r] = "done"

\* C4: setup raises the RuntimeError on a non-coordinating process exactly when
\* that process does not share storage with rank 0 (the directory rank 0
\* created is not visible to it); the coordinating process never raises.
C4_RaisesIffNoSharedStorage ==
    \A r \in Ranks :
        pc[r] \in {"done", "raised"} =>
            (raised[r] <=> (r # 0 /\ storageOf[r] # storageOf[0]))

\* C5: setup in a stage other than "predict" is a no-op: directory attribute and
\* filesystem unchanged, counter still None, no broadcast and no barrier.
C5_NonPredictNoOp ==
    stage # "predict" =>
        /\ fs = fs0
        /\ created = {}
        /\ arrived = {}
        /\ \A r \in Ranks :
             /\ pc[r] \in {"init", "returned"}
             /\ pred_counter[r] = None
             /\ directory[r] = base
             /\ ncollective[r] = 0

\* Every process of a two-process run has returned from setup in stage "fit".
C5_Witness ==
    /\ stage = "fit"
    /\ world_size = 2
    /\ \A r \in Ranks : pc[r] = "returned"

\* C6: a call of on_predict_batch_end writes once per example of
\* outputs["pred"], the i-th prediction with the i-th ID, whether the IDs were
\* provided or generated, and only after all the writes resets the prediction
\* buffer to one empty list per dataloader.
C6_WriteEachThenClear ==
    \A r \in Ranks :
        ncalls[r] > 0 =>
            LET o == outputs[r][1]
                n == Len(o.pred)
            IN /\ Len(events[r]) = n + 1
               /\ \A i \in 1 .. n : events[r][i] = <<"write", o.pred[i], o.id[i]>>
               /\ events[r][n + 1] = <<"clear", [d \in 1 .. num_dataloaders |-> <<>>]>>
               /\ predictions[r] = [d \in 1 .. num_dataloaders |-> <<>>]

\* With two dataloaders, one process has handled a batch of two with generated
\* IDs and another a batch of two with provided IDs.
C6_Witness ==
    /\ num_dataloaders = 2
    /\ \E r1 \in Ranks, r2 \in Ranks :
         /\ ncalls[r1] > 0 /\ outputs[r1][1].generated /\ Len(outputs[r1][1].pred) = 2
         /\ ncalls[r2] > 0 /\ ~outputs[r2][1].generated /\ Len(outputs[r2][1].pred) = 2

\* p is a direct sub-directory of b, not b itself.
IsSubDirectoryOf(p, b) == Len(p) = Len(b) + 1 /\ SubSeq(p, 1, Len(b)) = b

\* C7: the directory a predict setup creates and writes to is a new (dated)
\* sub-directory under the base path given to the constructor, not the base
\* path itself.
C7_DatedSubDirectory ==
    /\ \A c \in created : IsSubDirectoryOf(c[2], base)
    /\ \A r \in Ranks : pc[r] = "done" => IsSubDirectoryOf(directory[r], base)

IsSupported(v) == v \in {PyStr(t) : t \in SupportedTypes}
LoggedAs(key, v) ==
    \E i \in 1 .. Len(s_logs) :
        /\ s_logs[i].name = <<s_mode, key>>
        /\ s_logs[i].data_type = v
        /\ s_logs[i].outcome # "exit"
LoggedAtAll(key) == \E i \in 1 .. Len(s_logs) : s_logs[i].name = <<s_mode, key>>

\* C8: _step exits the process on account of input/target/pred logging only
\* when an unsupported data type is requested: a key whose setting is None is
\* not logged, a key set to scalar, image_single or image_batch is logged with
\* that data type and the step completes.
C8_ExitOnlyOnUnsupported ==
    s_pc \in {"done", "exited"} =>
        /\ s_pc = "exited" <=>
              \E k \in DOMAIN s_log_as : s_log_as[k] # PyNone /\ ~IsSupported(s_log_as[k])
        /\ s_pc = "done" =>
              \A k \in DOMAIN s_log_as :
                 /\ s_log_as[k] = PyNone => ~LoggedAtAll(k)
                 /\ IsSupported(s_log_as[k]) => LoggedAs(k, s_log_as[k])

\* C9 as stated: pred is flattened to (B,) when target is (B,) and pred is
\* (B,1); for every other combination of shapes pred keeps its shape.
C9_FlattenOnlyMatchingBatch ==
    s_pc \in {"done", "exited"} =>
        IF /\ Len(s_target_shape) = 1
           /\ Len(s_pred_shape) = 2
           /\ s_pred_shape[2] = 1
           /\ s_pred_shape[1] = s_target_shape[1]
        THEN s_pred_out = <<s_target_shape[1]>>
        ELSE s_pred_out = s_pred_shape

\* C9 amended: pred is flattened to one dimension when target has one dimension
\* and pred has two of which the second is 1, whether or not their first
\* dimensions agree; for every other combination pred keeps its shape.
C9_FlattenUnitColumn ==
    s_pc \in {"done", "exited"} =>
        IF /\ Len(s_target_shape) = 1
           /\ Len(s_pred_shape) = 2
           /\ s_pred_shape[2] = 1
        THEN s_pred_out = <<s_pred_shape[1]>>
        ELSE s_pred_out = s_pred_shape

\* A step with target (2,) and pred (2,1) has completed with pred (2,).
C9_Witness ==
    /\ s_pc = "done"
    /\ s_target_shape = <<2>>
    /\ s_pred_shape = <<2, 1>>
    /\ s_pred_out = <<2>>

\* The methods the stage of the last call uses and for which a dataset exists.
MethodsOfStage(st) ==
    (IF st = "fit" THEN {"train_dataloader", "training_step"} ELSE {})
    \cup (IF st = "validate" \/ (st = "fit" /\ l_datasets["val_dataset"])
          THEN {"val_dataloader", "validation_step"} ELSE {})
    \cup (IF st = "test" THEN {"test_dataloader", "test_step"} ELSE {})

\* C10: after any sequence of successful setup calls the system carries only the
\* dynamically bound methods of the stage of the most recent call, and the
\* constructor's placeholders were deleted exactly once.
C10_OnlyMethodsOfLastStage ==
    (l_last_stage # "" /\ ~l_exited) =>
        /\ \A m \in MethodNames : l_methods[m] \in Modes <=> m \in MethodsOfStage(l_last_stage)
        /\ \A m \in MethodNames : l_methods[m] # "placeholder"
        /\ l_deletions = 1

\* Every generated ID of rank r is congruent to r modulo world_size, and no two
\* generated IDs are equal, across or within processes.
C11_IdsCongruentToRank ==
    /\ \A r \in Ranks : \A i \in DOMAIN assigned[r] : assigned[r][i] % world_size = r
    /\ \A r1 \in Ranks, r2 \in Ranks :
         \A i \in DOMAIN assigned[r1], j \in DOMAIN assigned[r2] :
            assigned[r1][i] = assigned[r2][j] => (r1 = r2 /\ i = j)

\* A call that generates IDs strictly increases the counter of its process; a
\* call whose IDs are provided leaves it unchanged.
C11_CounterStep ==
    \A r \in Ranks :
        (r \in DOMAIN ncalls' /\ ncalls'[r] = ncalls[r] + 1) =>
            IF outputs'[r][1].generated
            THEN pred_counter'[r][1] > pred_counter[r][1]
            ELSE pred_counter'[r] = pred_counter[r]

\* C11: with batch sizes that vary from call to call and between processes,
\* every ID generated on rank r is congruent to r modulo world_size and each
\* counter strictly increases over ID-generating calls, so generated IDs never
\* collide across or within processes; a call whose outputs["id"] is provided
\* leaves the counter unchanged.
C11_StridedCounters == [](C11_IdsCongruentToRank) /\ [][C11_CounterStep]_vars

\* Two processes: rank 0 generated IDs for a batch of 1 and then a batch of 2;
\* rank 1 generated IDs for a batch of 2 and then handled a batch with provided
\* IDs, its counter still at 1 + 2 * 2.
C11_Witness ==
    /\ world_size = 2
    /\ ncalls[0] = 2 /\ Len(assigned[0]) = 3 /\ Len(outputs[0][1].pred) = 2
    /\ ncalls[1] = 2 /\ Len(assigned[1]) = 2 /\ ~outputs[1][1].generated
    /\ pred_counter[1] = Some(5)

====
